---- MODULE Spec2Model ----
(***************************************************************************)
(* unified-mind: the chunker, the memory writer (ingest / store), the      *)
(* memory retriever (search), the grounding assembler and the bulk         *)
(* ingestion driver, as state machines over JavaScript strings.            *)
(*                                                                         *)
(* A JavaScript string is a TLA+ string; positions are 0-based as in the   *)
(* source and converted at the SubSeq calls only.                          *)
(***************************************************************************)
EXTENDS Integers, Sequences, FiniteSets, TLC

\* ------------------------------------------------------------------ bounds
\* longest text handed to the chunker
MaxLen == 6
\* largest maxChars of the bulk chunker
MaxChars == 6
\* largest overlap of the bulk chunker
MaxOverlap == 6
\* largest maxTokens / overlap (in tokens) of the worker chunker
MaxTokens == 1
MaxOverlapTokens == 1
\* cap on the loop iterations followed (a diverging loop pushes for ever)
MaxChunks == 8

\* ------------------------------------------------------ JavaScript strings
\* "." is the ordinary character and, before " ", a sentence end; "\n\n" is
\* the blank line
Alphabet == {".", " "}
BlankLine == "\n\n"
Whitespace == {" ", "\n"}

Min(a, b) == IF a < b THEN a ELSE b
Max(a, b) == IF a > b THEN a ELSE b
SetMax(S) == CHOOSE m \in S : \A x \in S : x <= m

\* the texts of length exactly n made of the characters of Alphabet and of
\* blank lines
RECURSIVE StrN(_)
StrN(n) ==
  IF n = 0 THEN {""}
  ELSE {s \o c : s \in StrN(n - 1), c \in Alphabet}
       \cup (IF n >= 2 THEN {s \o BlankLine : s \in StrN(n - 2)} ELSE {})

Texts == UNION {StrN(k) : k \in 0..MaxLen}

\* String.prototype.slice: a negative index counts from the end, both are
\* clamped to [0, length], an empty range gives ""
sliceIndex(s, k) == IF k < 0 THEN Max(Len(s) + k, 0) ELSE Min(k, Len(s))

slice(s, from, to) ==
  LET f == sliceIndex(s, from)
      t == sliceIndex(s, to)
  IN IF f < t THEN SubSeq(s, f + 1, t) ELSE ""

\* String.prototype.lastIndexOf: 0-based position of the last match, or -1
lastIndexOf(s, pat) ==
  SetMax({i \in 0..(Len(s) - Len(pat)) : SubSeq(s, i + 1, i + Len(pat)) = pat}
         \cup {-1})

\* String.prototype.trim
trim(s) ==
  LET keep == {i \in 1..Len(s) : SubSeq(s, i, i) \notin Whitespace}
  IN IF keep = {} THEN ""
     ELSE SubSeq(s, CHOOSE i \in keep : \A j \in keep : i <= j, SetMax(keep))

\* ---------------------------------------------------------------- chunker
VARIABLES
  text,        \* chunkText's argument
  fn,          \* "worker" (src/index.js) or "bulk" (the ingest CLI)
  maxArg,      \* second argument: maxTokens (worker) or maxChars (bulk)
  overlapArg,  \* third argument: overlap in tokens (worker) or chars (bulk)
  start,       \* let start
  chunks,      \* const chunks
  windows,     \* history: <<start, end>> of every iteration, in order
  cpc          \* "entry", "loop" or "done"

chunkVars == <<text, fn, maxArg, overlapArg, start, chunks, windows, cpc>>

\* the worker's collaborators and the tools/call being served
VARIABLES
  index,       \* VECTORIZE: the units upserted, in order
  blobs,       \* R2: key -> the payload last put under it
  nextId,      \* generateId(): the ids handed out so far
  calls,       \* the ingest and store calls received so far; their clock
  pc,          \* where the handler is: "idle", "embed", "put", "upsert",
               \* "store-embed", "store-upsert"
  tool,        \* params.name of the call being served
  args,        \* params.arguments of the call being served
  loopI,       \* toolIngest's loop index i
  results,     \* toolIngest's results
  response,    \* the JSON-RPC response to the last call
  reqs         \* history: the collaborator requests issued by this call

workerVars ==
  <<index, blobs, nextId, calls, pc, tool, args, loopI, results, response, reqs>>

\* the retriever: toolSearch and toolGetGroundingContext
VARIABLES
  queryOptions, \* what the last VECTORIZE.query was sent (with the filter)
  matches,      \* results.matches of that query
  memories      \* toolSearch's memories

searchVars == <<queryOptions, matches, memories>>

\* the ingest CLI: processDirectory
VARIABLES
  dirFiles,     \* what readdir lists under dirPath
  fileI,        \* position of filePath in matchingFiles (0-based)
  chunkI,       \* position in the chunks of the file being processed
  successCount, \* successCount of the file being processed
  totalChunks,  \* processDirectory's totalChunks
  bpc,          \* "start", "file", "chunk", "returned" or "threw"
  ingested      \* history: the ingest calls that succeeded, as <<file, chunk>>

bulkVars == <<dirFiles, fileI, chunkI, successCount, totalChunks, bpc, ingested>>

\* handleMCPRequest: the body of a request that is answered without reaching
\* one of the tools above (a call of those is held in tool and args)
VARIABLES body

protocolVars == <<body>>

vars == <<chunkVars, workerVars, searchVars, bulkVars, protocolVars>>

\* what the steps of each part leave alone
chunkRest == <<workerVars, searchVars, bulkVars, protocolVars>>
workerRest == <<chunkVars, searchVars, bulkVars, protocolVars>>
searchRest ==
  <<chunkVars, index, blobs, nextId, calls, loopI, results, bulkVars, protocolVars>>
bulkRest == <<chunkVars, workerVars, searchVars, protocolVars>>

NoBody == [kind |-> "none"]

BulkIdle ==
  /\ dirFiles = <<>>
  /\ fileI = 0
  /\ chunkI = 0
  /\ successCount = 0
  /\ totalChunks = 0
  /\ bpc = "returned"
  /\ ingested = {}

SearchIdle ==
  /\ queryOptions = <<>>
  /\ matches = <<>>
  /\ memories = <<>>

\* mutant: the worker takes its overlap as characters
overlapCharsUnscaled(f, o) == o

\* the worker takes tokens and multiplies by 4, the CLI takes characters
maxCharsOf(f, m) == IF f = "worker" THEN m * 4 ELSE m
overlapCharsOf(f, o) == IF f = "worker" THEN o * 4 ELSE o

maxChars == maxCharsOf(fn, maxArg)
overlapChars == overlapCharsOf(fn, overlapArg)

\* the last breakpoint in the window, or -1
lastBreak(sl) ==
  Max(Max(lastIndexOf(sl, "\n\n"), lastIndexOf(sl, ". ")),
      Max(lastIndexOf(sl, "? "), lastIndexOf(sl, "! ")))

\* mutant: the window is one character too wide
chunkEndWide(t, st, mc) ==
  LET end == st + mc + 1
      lb == lastBreak(slice(t, st, end))
  IN IF end < Len(t) /\ 2 * lb > mc THEN st + lb + 1 ELSE end

\* the end of the window starting at st
chunkEnd(t, st, mc) ==
  LET end == st + mc
      lb == lastBreak(slice(t, st, end))
  IN IF end < Len(t) /\ 2 * lb > mc THEN st + lb + 1 ELSE end

emitted(t, st, end) == trim(slice(t, st, end))

\* mutant: the next window starts one character late
nextStartLate(end, oc) == end - oc + 1

\* start = end - overlapChars
nextStart(end, oc) == end - oc

\* the whole of chunkText, for the callers that use its result
RECURSIVE chunkLoop(_, _, _, _)
chunkLoop(t, st, mc, oc) ==
  IF st < Len(t)
  THEN LET end == chunkEnd(t, st, mc)
       IN <<emitted(t, st, end)>> \o chunkLoop(t, nextStart(end, oc), mc, oc)
  ELSE <<>>

chunkText(t, f, m, o) ==
  IF Len(t) <= maxCharsOf(f, m)
  THEN <<t>>
  ELSE chunkLoop(t, 0, maxCharsOf(f, m), overlapCharsOf(f, o))

\* the worker before its first request
WorkerInit ==
  /\ index = <<>>
  /\ blobs = <<>>
  /\ nextId = 0
  /\ calls = 0
  /\ pc = "idle"
  /\ tool = "none"
  /\ args = <<>>
  /\ loopI = 0
  /\ results = <<>>
  /\ response = [kind |-> "none"]
  /\ reqs = <<>>
  /\ body = NoBody

ChunkCalls ==
  {[f |-> "bulk", m |-> m, o |-> o] : m \in 1..MaxChars, o \in 0..MaxOverlap}
  \cup
  {[f |-> "worker", m |-> m, o |-> o] : m \in 1..MaxTokens, o \in 0..MaxOverlapTokens}

ChunkInit ==
  /\ text \in Texts
  /\ \E c \in ChunkCalls : fn = c.f /\ maxArg = c.m /\ overlapArg = c.o
  /\ start = 0
  /\ chunks = <<>>
  /\ windows = <<>>
  /\ cpc = "entry"
  /\ WorkerInit
  /\ SearchIdle
  /\ BulkIdle

\* if (text.length <= maxChars) return [text]
ChunkSingle ==
  /\ cpc = "entry"
  /\ Len(text) <= maxChars
  /\ chunks' = <<text>>
  /\ cpc' = "done"
  /\ UNCHANGED <<text, fn, maxArg, overlapArg, start, windows>>
  /\ UNCHANGED chunkRest

\* one iteration of while (start < text.length)
ChunkIter ==
  /\ cpc \in {"entry", "loop"}
  /\ Len(text) > maxChars
  /\ start < Len(text)
  /\ Len(chunks) < MaxChunks
  /\ LET end == chunkEnd(text, start, maxChars)
     IN /\ chunks' = Append(chunks, emitted(text, start, end))
        /\ windows' = Append(windows, <<start, end>>)
        /\ start' = nextStart(end, overlapChars)
  /\ cpc' = "loop"
  /\ UNCHANGED <<text, fn, maxArg, overlapArg>>
  /\ UNCHANGED chunkRest

\* the loop condition fails: return chunks
ChunkReturn ==
  /\ cpc = "loop"
  /\ start >= Len(text)
  /\ cpc' = "done"
  /\ UNCHANGED <<text, fn, maxArg, overlapArg, start, chunks, windows>>
  /\ UNCHANGED chunkRest

ChunkNext == ChunkSingle \/ ChunkIter \/ ChunkReturn

SpecChunk == ChunkInit /\ [][ChunkNext]_vars

\* ------------------------------------------------------- chunker: claims
\* the part of the text window i was cut from, as slice() reads it
windowFrom(i) == sliceIndex(text, windows[i][1])
windowTo(i) == sliceIndex(text, windows[i][2])

brokeAt(i) == windows[i][2] < windows[i][1] + maxChars

\* C2: on every loop iteration the window start increases by at least one
\* character (so the loop reaches start >= len(text)), for every
\* maxChars >= 1 and overlapChars >= 0.
C2_StartAdvances ==
  [][(cpc' = "loop" /\ windows' # windows) => start' >= start + 1]_vars

\* C9: for a non-empty text and maxChars >= 1, every string chunkText
\* returns is non-empty.
C9_ChunksNonEmpty ==
  (cpc = "done" /\ text # "") => \A i \in 1..Len(chunks) : chunks[i] # ""

\* C10: for len(text) > maxChars and 0 <= overlapChars < maxChars the
\* windows leave no gap: the first starts at 0, each next one starts at or
\* before the end of the one before, every chunk is its window trimmed, and
\* when chunkText returns the last window has reached len(text) and every
\* position of the text lies in a window.
C10_WindowsCover ==
  (Len(text) > maxChars /\ overlapChars < maxChars) =>
    /\ Len(chunks) = Len(windows)
    /\ windows # <<>> => windows[1][1] = 0
    /\ \A i \in 2..Len(windows) : windows[i][1] <= windows[i - 1][2]
    /\ \A i \in 1..Len(windows) :
         chunks[i] = trim(slice(text, windows[i][1], windows[i][2]))
    /\ cpc = "done" =>
         /\ windows # <<>>
         /\ windows[Len(windows)][2] >= Len(text)
         /\ \A p \in 0..(Len(text) - 1) :
              \E i \in 1..Len(windows) : windowFrom(i) <= p /\ p < windowTo(i)

\* a returned run of three or more windows, one of them cut at a breakpoint,
\* with a real overlap
C10_Witness ==
  /\ cpc = "done"
  /\ Len(text) > maxChars
  /\ 0 < overlapChars /\ overlapChars < maxChars
  /\ Len(windows) >= 3
  /\ \E i \in 1..Len(windows) : brokeAt(i)

\* C11: for len(text) > maxChars every chunk chunkText emits is at most
\* maxChars long, whether its window was cut at a breakpoint or at the hard
\* maxChars boundary.
C11_ChunkWithinMaxChars ==
  Len(text) > maxChars => \A i \in 1..Len(chunks) : Len(chunks[i]) <= maxChars

\* a returned run with a window cut at a breakpoint and a chunk of exactly
\* maxChars characters cut at the hard boundary
C11_Witness ==
  /\ cpc = "done"
  /\ Len(text) > maxChars
  /\ \E i \in 1..Len(windows) : brokeAt(i) /\ chunks[i] # ""
  /\ \E i \in 1..Len(windows) : ~brokeAt(i) /\ Len(chunks[i]) = maxChars

\* the end of window i as clipped to the text length
clippedEnd(i) == Min(windows[i][2], Len(text))

\* C18: for len(text) > maxChars and 0 <= overlapChars < maxChars every
\* window after the first ends strictly beyond the clipped end of the window
\* before it, so every chunk covers a position the chunk before it does not,
\* and no chunk is emitted after a window has reached the end of the text.
C18_WindowsProgress ==
  (Len(text) > maxChars /\ overlapChars < maxChars) =>
    /\ \A i \in 2..Len(windows) : clippedEnd(i) > clippedEnd(i - 1)
    /\ \A i \in 1..(Len(windows) - 1) : windows[i][2] < Len(text)

\* ------------------------------------------------- the two chunkers
\* longest text, largest maxTokens and overlap given to the worker's chunker
\* when it is compared with the CLI's
MaxPairLen == 9
MaxPairTokens == 2
MaxPairOverlap == 1

PairAlphabet == {".", " "}

RECURSIVE PairStrN(_)
PairStrN(n) == IF n = 0 THEN {""} ELSE {s \o c : s \in PairStrN(n - 1), c \in PairAlphabet}

PairTexts == UNION {PairStrN(k) : k \in 0..MaxPairLen}

\* the CLI's chunkText, its loop followed for at most n iterations
RECURSIVE cliChunkLoop(_, _, _, _, _)
cliChunkLoop(t, st, mc, ov, n) ==
  IF n = 0 \/ ~(st < Len(t)) THEN <<>>
  ELSE LET end0 == st + mc
           sl == slice(t, st, end0)
           lb == Max(Max(lastIndexOf(sl, "\n\n"), lastIndexOf(sl, ". ")),
                     Max(lastIndexOf(sl, "? "), lastIndexOf(sl, "! ")))
           end == IF end0 < Len(t) /\ 2 * lb > mc THEN st + lb + 1 ELSE end0
       IN <<trim(slice(t, st, end))>> \o cliChunkLoop(t, end - ov, mc, ov, n - 1)

cliChunkText(t, mc, ov, n) ==
  IF Len(t) <= mc THEN <<t>> ELSE cliChunkLoop(t, 0, mc, ov, n)

\* the worker's chunkText called on the texts of the comparison
PairInit ==
  /\ text \in PairTexts
  /\ fn = "worker"
  /\ maxArg \in 1..MaxPairTokens
  /\ overlapArg \in 0..MaxPairOverlap
  /\ start = 0
  /\ chunks = <<>>
  /\ windows = <<>>
  /\ cpc = "entry"
  /\ WorkerInit
  /\ SearchIdle
  /\ BulkIdle

SpecPair == PairInit /\ [][ChunkNext]_vars

\* C15: the worker's chunkText(text, maxTokens, overlap) and the CLI's
\* chunkText(text, 4*maxTokens, 4*overlap) return the same chunk sequence:
\* after each iteration of the worker the chunks so far are the CLI's first
\* chunks, the worker goes on exactly when the CLI does, and what the worker
\* returns is what the CLI returns.
C15_ChunkersAgree ==
  (fn = "worker" /\ cpc # "entry") =>
    LET n == Len(chunks)
        ahead == cliChunkText(text, 4 * maxArg, 4 * overlapArg, n + 1)
    IN /\ chunks = cliChunkText(text, 4 * maxArg, 4 * overlapArg, n)
       /\ cpc = "done" => ahead = chunks
       /\ (cpc = "loop" /\ start < Len(text)) => Len(ahead) = n + 1

\* the worker returned three or more chunks, with a window cut at a
\* sentence end and a real overlap
C15_Witness ==
  /\ fn = "worker"
  /\ cpc = "done"
  /\ overlapArg > 0
  /\ Len(chunks) >= 3
  /\ \E i \in 1..Len(windows) : brokeAt(i)

\* ----------------------------------------------------------- memory writer
\* parseInt(env.MAX_CHUNK_TOKENS) || 400 and parseInt(env.CHUNK_OVERLAP) || 50
\* with the two variables unset
DefaultMaxChunkTokens == 400
DefaultChunkOverlap == 50
\* text_preview: chunk.slice(0, 500)
PreviewLen == 500
\* if (chunk.length > 500): the chunk goes to R2
BlobThreshold == 500
\* the JSON-RPC code of a failed tool
ToolErrorCode == -32000
\* requests served in one run of the model
MaxCalls == 2

RECURSIVE Rep(_, _)
Rep(c, n) ==
  IF n = 0 THEN ""
  ELSE LET h == Rep(c, n \div 2)
       IN IF n % 2 = 0 THEN h \o h ELSE (h \o h) \o c

\* contents: a short note, one of exactly 500 and one of 501 characters, and
\* a text of 1652 characters that chunkText cuts after its sentence end into
\* chunks of 1401 and 451 characters
Small == "aaa"
AtLimit == Rep("a", 500)
OverLimit == Rep("a", 501)
TwoParts == (Rep("b", 1400) \o ". ") \o Rep("b", 250)
Contents == {Small, AtLimit, OverLimit, TwoParts}
StoreTexts == {Small, OverLimit}

\* the caller's metadata: none, an extra key, system keys, the blob key
Metadatas ==
  { [speaker |-> "ann"],
    [entity_name |-> "mallory", chunk_hash |-> "forged", chunk_index |-> 7,
     ingested_at |-> -1, timestamp |-> 0],
    [r2_key |-> "chunks/other.json"] }

has(a, k) == k \in DOMAIN a
without(a, k) == [x \in DOMAIN a \ {k} |-> a[x]]
\* {k: v} when v is defined, {} when it is not
opt(a, k) == IF has(a, k) THEN k :> a[k] ELSE <<>>

IngestRequired == {"content", "entity_name", "source_platform", "memory_type"}
StoreRequired == {"text", "entity_name", "memory_type"}

ingestCall(c, e) ==
  [content |-> c, entity_name |-> e, source_platform |-> "claude",
   memory_type |-> "note"]
storeCall(t) == [text |-> t, entity_name |-> "e1", memory_type |-> "note"]

\* the tools/call arguments tried: every content, a second entity with the
\* same content, each caller metadata, and each required argument left out
IngestCalls ==
  {ingestCall(c, "e1") : c \in Contents}
  \cup {ingestCall(OverLimit, "e2")}
  \cup {[metadata |-> m] @@ ingestCall(c, "e1") :
          m \in Metadatas, c \in {Small, OverLimit, TwoParts}}
  \cup {without(ingestCall(OverLimit, "e1"), k) : k \in IngestRequired}

StoreCalls ==
  {storeCall(t) : t \in StoreTexts}
  \cup {[source_platform |-> "claude", metadata |-> m] @@ storeCall(Small) :
          m \in Metadatas}
  \cup {without(storeCall(Small), k) : k \in StoreRequired}

\* hashContent: the SHA-256 digest in hex, taken as collision-free
hashContent(t) == "sha256:" \o t

\* generateEmbedding: the vector the model returns for the text
embeddingOf(t) == [model |-> "@cf/baai/bge-base-en-v1.5", of |-> t]

r2KeyOf(hash) == ("chunks/" \o hash) \o ".json"

\* a || b on the values used here: 0 is the falsy one
orElse(a, k, b) == IF has(a, k) /\ a[k] # 0 THEN a[k] ELSE b

\* const { ..., metadata = {} } = args
callerMetadata(a) == IF has(a, "metadata") THEN a.metadata ELSE <<>>

\* mutant: the system's fields are applied last
systemKeysWin(sys, md) == sys @@ md

\* { ...system fields, ...metadata }: the caller's keys are applied last
spread(sys, md) == md @@ sys

\* toolIngest's vectorMetadata, before r2_key is set
ingestMetadata(a, chunk, idx, total, ts) ==
  spread(opt(a, "entity_name") @@ opt(a, "source_platform") @@ opt(a, "memory_type")
         @@ [timestamp |-> orElse(callerMetadata(a), "timestamp", ts),
             text_preview |-> slice(chunk, 0, PreviewLen),
             chunk_hash |-> hashContent(chunk),
             chunk_index |-> idx,
             total_chunks |-> total,
             ingested_at |-> ts],
         callerMetadata(a))

\* toolStore's vectorMetadata
storeMetadata(a, ts) ==
  spread(opt(a, "entity_name")
         @@ [source_platform |-> IF has(a, "source_platform") THEN a.source_platform ELSE "direct"]
         @@ opt(a, "memory_type")
         @@ [timestamp |-> orElse(callerMetadata(a), "timestamp", ts),
             text_preview |-> slice(a.text, 0, PreviewLen),
             chunk_hash |-> hashContent(a.text),
             ingested_at |-> ts],
         callerMetadata(a))

\* mutant: a chunk of exactly 500 characters goes to R2 too
needsBlobFrom500(chunk) == Len(chunk) >= BlobThreshold

\* chunk.length > 500
needsBlob(chunk) == Len(chunk) > BlobThreshold

\* chunkText(content, maxChunkTokens, chunkOverlap), once per content
chunksOfContent ==
  [c \in Contents |->
     chunkText(c, "worker", DefaultMaxChunkTokens, DefaultChunkOverlap)]

\* toolIngest's chunks, chunk, hash, id and timestamp
ingestChunks == chunksOfContent[args.content]
chunk == ingestChunks[loopI + 1]
timestamp == calls

\* mutant: executeTool is called outside the try, the catch of fetch answers
toolErrorUncaught == [kind |-> "error", code |-> -32603]

toolError == [kind |-> "error", code |-> ToolErrorCode]

\* the catch of handleMCPRequest: the call is answered with the error
Throw ==
  /\ response' = toolError
  /\ pc' = "idle"

\* fetch returns the Response made of the answer; nothing of the request is
\* kept
Deliver ==
  /\ pc = "idle"
  /\ response.kind # "none"
  /\ response' = [kind |-> "none"]
  /\ tool' = "none"
  /\ args' = <<>>
  /\ loopI' = 0
  /\ results' = <<>>
  /\ reqs' = <<>>
  /\ queryOptions' = <<>>
  /\ matches' = <<>>
  /\ memories' = <<>>
  /\ body' = NoBody
  /\ UNCHANGED <<pc, index, blobs, nextId, calls, chunkVars, bulkVars>>

\* tools/call of ingest, up to the first embedding request; chunkText throws
\* a TypeError on an undefined content
CallIngest ==
  /\ pc = "idle"
  /\ response.kind = "none"
  /\ calls < MaxCalls
  /\ \E a \in IngestCalls :
       /\ args' = a
       /\ IF has(a, "content")
          THEN pc' = "embed" /\ response' = [kind |-> "none"]
          ELSE Throw
  /\ tool' = "ingest"
  /\ calls' = calls + 1
  /\ loopI' = 0
  /\ results' = <<>>
  /\ reqs' = <<>>
  /\ UNCHANGED <<index, blobs, nextId>>
  /\ UNCHANGED workerRest

\* hashContent, generateId, await generateEmbedding(chunk, env)
IngestEmbed ==
  /\ pc = "embed"
  /\ nextId' = nextId + 1
  /\ reqs' = Append(reqs, [op |-> "embed", at |-> loopI])
  /\ \/ pc' = (IF needsBlob(chunk) THEN "put" ELSE "upsert") /\ UNCHANGED response
     \/ Throw
  /\ UNCHANGED <<index, blobs, calls, tool, args, loopI, results>>
  /\ UNCHANGED workerRest

\* await env.R2.put(r2Key, JSON.stringify({hash, text, metadata}))
IngestPut ==
  /\ pc = "put"
  /\ reqs' = Append(reqs, [op |-> "put", at |-> loopI])
  /\ \/ /\ blobs' = (r2KeyOf(hashContent(chunk)) :>
                       [hash |-> hashContent(chunk),
                        text |-> chunk,
                        metadata |-> ingestMetadata(args, chunk, loopI,
                                                    Len(ingestChunks), timestamp)])
                    @@ blobs
        /\ pc' = "upsert"
        /\ UNCHANGED response
     \/ Throw /\ UNCHANGED blobs
  /\ UNCHANGED <<index, nextId, calls, tool, args, loopI, results>>
  /\ UNCHANGED workerRest

\* the unit toolIngest upserts; "by" is history: the call and chunk it is of
ingestUnit ==
  [id |-> nextId, values |-> embeddingOf(chunk)]
  @@ (IF has(args, "entity_name") THEN [namespace |-> args.entity_name] ELSE <<>>)
  @@ [metadata |->
        (IF needsBlob(chunk) THEN [r2_key |-> r2KeyOf(hashContent(chunk))] ELSE <<>>)
        @@ ingestMetadata(args, chunk, loopI, Len(ingestChunks), timestamp),
      by |-> [tool |-> "ingest", call |-> calls, args |-> args, chunk |-> chunk,
              at |-> loopI, total |-> Len(ingestChunks), ts |-> timestamp]]

\* the result toolIngest returns
ingestResult(rs) ==
  [kind |-> "result", success |-> TRUE, chunks_created |-> Len(rs),
   memory_ids |-> [k \in 1..Len(rs) |-> rs[k].id]]

\* await env.VECTORIZE.upsert([...]); results.push; after the last chunk the
\* call returns
IngestUpsert ==
  /\ pc = "upsert"
  /\ reqs' = Append(reqs, [op |-> "upsert", at |-> loopI])
  /\ \/ /\ index' = Append(index, ingestUnit)
        /\ results' = Append(results, [id |-> nextId, hash |-> hashContent(chunk),
                                       chunk_index |-> loopI])
        /\ loopI' = loopI + 1
        /\ IF loopI + 1 < Len(ingestChunks)
           THEN pc' = "embed" /\ UNCHANGED response
           ELSE pc' = "idle" /\ response' = ingestResult(results')
     \/ Throw /\ UNCHANGED <<index, results, loopI>>
  /\ UNCHANGED <<blobs, nextId, calls, tool, args>>
  /\ UNCHANGED workerRest

\* tools/call of store, up to the embedding request (hashContent encodes an
\* undefined text as the empty input)
CallStore ==
  /\ pc = "idle"
  /\ response.kind = "none"
  /\ calls < MaxCalls
  /\ \E a \in StoreCalls : args' = a
  /\ tool' = "store"
  /\ calls' = calls + 1
  /\ nextId' = nextId + 1
  /\ pc' = "store-embed"
  /\ response' = [kind |-> "none"]
  /\ loopI' = 0
  /\ results' = <<>>
  /\ reqs' = <<>>
  /\ UNCHANGED <<index, blobs>>
  /\ UNCHANGED workerRest

\* await generateEmbedding(text, env); text.slice throws on an undefined text
StoreEmbed ==
  /\ pc = "store-embed"
  /\ reqs' = Append(reqs, [op |-> "embed", at |-> 0])
  /\ \/ has(args, "text") /\ pc' = "store-upsert" /\ UNCHANGED response
     \/ Throw
  /\ UNCHANGED <<index, blobs, nextId, calls, tool, args, loopI, results>>
  /\ UNCHANGED workerRest

storeUnit ==
  [id |-> nextId, values |-> embeddingOf(args.text)]
  @@ (IF has(args, "entity_name") THEN [namespace |-> args.entity_name] ELSE <<>>)
  @@ [metadata |-> storeMetadata(args, timestamp),
      by |-> [tool |-> "store", call |-> calls, args |-> args, chunk |-> args.text,
              at |-> 0, total |-> 1, ts |-> timestamp]]

\* await env.VECTORIZE.upsert([...]) and the return
StoreUpsert ==
  /\ pc = "store-upsert"
  /\ reqs' = Append(reqs, [op |-> "upsert", at |-> 0])
  /\ \/ /\ index' = Append(index, storeUnit)
        /\ response' = [kind |-> "result", success |-> TRUE, memory_id |-> nextId]
        /\ pc' = "idle"
     \/ Throw /\ UNCHANGED index
  /\ UNCHANGED <<blobs, nextId, calls, tool, args, loopI, results>>
  /\ UNCHANGED workerRest

WorkerNext ==
  \/ CallIngest
  \/ IngestEmbed
  \/ IngestPut
  \/ IngestUpsert
  \/ CallStore
  \/ StoreEmbed
  \/ StoreUpsert
  \/ Deliver

\* the chunker's variables while the worker runs
ChunkerIdle ==
  /\ text = ""
  /\ fn = "worker"
  /\ maxArg = DefaultMaxChunkTokens
  /\ overlapArg = DefaultChunkOverlap
  /\ start = 0
  /\ chunks = <<>>
  /\ windows = <<>>
  /\ cpc = "done"

WorkerStart == WorkerInit /\ ChunkerIdle /\ SearchIdle /\ BulkIdle

SpecWorker == WorkerStart /\ [][WorkerNext]_vars

\* ---------------------------------------------------- memory writer: claims
unitsOfCall == {k \in 1..Len(index) : index[k].by.call = calls}
answered == pc = "idle" /\ response.kind # "none"

\* C1: when a collaborator call fails for one chunk of an ingest, the other
\* chunks are still processed and the call returns a result whose
\* chunks_created is the number of chunks upserted, not an error.
C1_IngestIsolatesFailures ==
  (tool = "ingest" /\ answered /\ has(args, "content")
     /\ Len(ingestChunks) > 1) =>
    /\ response.kind = "result"
    /\ \A j \in 0..(Len(ingestChunks) - 1) :
         \E k \in 1..Len(reqs) : reqs[k] = [op |-> "embed", at |-> j]
    /\ response.chunks_created = Cardinality(unitsOfCall)

\* C3: an ingest or store call that omits a required argument is answered
\* with an error and issues no embedding request, blob put or index upsert.
C3_MissingArgumentRejected ==
  LET required == IF tool = "ingest" THEN IngestRequired ELSE StoreRequired
  IN (tool \in {"ingest", "store"} /\ required \ DOMAIN args # {}) =>
       /\ reqs = <<>>
       /\ answered => response.kind = "error"

\* C6: ingest puts every chunk longer than 500 characters to R2 under
\* chunks/<hash>.json before it issues that chunk's upsert, the upserted
\* metadata carries that key as r2_key, and no put is made for a chunk of at
\* most 500 characters; so the blob of every such unit in the index exists.
C6_BlobBeforeUpsert ==
  /\ \A k \in 1..Len(index) :
       LET u == index[k]
           key == r2KeyOf(hashContent(u.by.chunk))
       IN (u.by.tool = "ingest" /\ Len(u.by.chunk) > 500) =>
            /\ has(u.metadata, "r2_key")
            /\ u.metadata.r2_key = key
            /\ has(blobs, key)
            /\ blobs[key].text = u.by.chunk
  /\ \A key \in DOMAIN blobs :
       /\ Len(blobs[key].text) > 500
       /\ key = r2KeyOf(hashContent(blobs[key].text))
  /\ (tool = "ingest" /\ has(args, "content")) =>
       \A k \in 1..Len(reqs) :
         LET long == Len(ingestChunks[reqs[k].at + 1]) > 500
         IN /\ reqs[k].op = "put" => long
            /\ (reqs[k].op = "upsert" /\ long) =>
                 \E j \in 1..(k - 1) : reqs[j] = [op |-> "put", at |-> reqs[k].at]

\* one ingest has written a chunk of more than 500 characters, with its
\* blob, and a chunk of at most 500 characters
C6_Witness ==
  \E k, l \in 1..Len(index) :
    /\ index[k].by.tool = "ingest" /\ index[l].by.tool = "ingest"
    /\ index[k].by.call = index[l].by.call
    /\ Len(index[k].by.chunk) > 500
    /\ Len(index[l].by.chunk) <= 500
    /\ has(blobs, index[k].metadata.r2_key)

\* the value the system assigns to key k of unit u, and whether it assigns one
systemKeys(u) ==
  (IF u.by.tool = "ingest"
   THEN {"source_platform", "chunk_index", "total_chunks"} \cap
        ({"chunk_index", "total_chunks"} \cup DOMAIN u.by.args)
   ELSE {"source_platform"})
  \cup ({"entity_name", "memory_type"} \cap DOMAIN u.by.args)
  \cup {"timestamp", "text_preview", "chunk_hash", "ingested_at"}

systemValue(u, k) ==
  CASE k = "entity_name" -> u.by.args.entity_name
    [] k = "source_platform" ->
         IF has(u.by.args, "source_platform") THEN u.by.args.source_platform ELSE "direct"
    [] k = "memory_type" -> u.by.args.memory_type
    [] k = "timestamp" -> u.by.ts
    [] k = "text_preview" -> slice(u.by.chunk, 0, 500)
    [] k = "chunk_hash" -> hashContent(u.by.chunk)
    [] k = "chunk_index" -> u.by.at
    [] k = "total_chunks" -> u.by.total
    [] k = "ingested_at" -> u.by.ts

blobbed(u) == u.by.tool = "ingest" /\ Len(u.by.chunk) > 500

\* C7 as claimed: every key of the caller's metadata is stored with the
\* caller's value, and every system key the caller does not supply with the
\* system's value.
C7_CallerKeysAlwaysWin ==
  \A n \in 1..Len(index) :
    LET u == index[n]
        md == callerMetadata(u.by.args)
    IN /\ \A k \in DOMAIN md : has(u.metadata, k) /\ u.metadata[k] = md[k]
       /\ \A k \in systemKeys(u) \ DOMAIN md :
            has(u.metadata, k) /\ u.metadata[k] = systemValue(u, k)

\* C7 as amended: every key of the caller's metadata other than r2_key is
\* stored with the caller's value, also when it is a system key, and every
\* system key the caller does not supply with the system's value; r2_key of an
\* ingest chunk longer than 500 characters is always the system's
\* chunks/<hash>.json, and otherwise the caller's when it is supplied.
C7_CallerKeysWinExceptBlobKey ==
  \A n \in 1..Len(index) :
    LET u == index[n]
        md == callerMetadata(u.by.args)
    IN /\ \A k \in DOMAIN md \ {"r2_key"} : has(u.metadata, k) /\ u.metadata[k] = md[k]
       /\ \A k \in systemKeys(u) \ DOMAIN md :
            has(u.metadata, k) /\ u.metadata[k] = systemValue(u, k)
       /\ IF blobbed(u)
          THEN u.metadata.r2_key = r2KeyOf(hashContent(u.by.chunk))
          ELSE has(u.metadata, "r2_key") = has(md, "r2_key")
               /\ (has(md, "r2_key") => u.metadata.r2_key = md.r2_key)
       /\ DOMAIN u.metadata \subseteq systemKeys(u) \cup DOMAIN md \cup {"r2_key"}

\* the index holds a unit whose caller overwrote system keys and a unit
\* longer than 500 characters whose caller supplied r2_key
C7_Witness ==
  \E k, l \in 1..Len(index) :
    /\ has(callerMetadata(index[k].by.args), "chunk_hash")
    /\ index[k].metadata.entity_name = "mallory"
    /\ index[k].by.args.entity_name = "e1"
    /\ has(callerMetadata(index[l].by.args), "r2_key")
    /\ blobbed(index[l])

\* ----------------------------------------------------------- the retriever
\* scores and min_score are in hundredths: 0.7 is 70
DefaultLimit == 10
MaxTopK == 20
DefaultMinScore == 70
GroundingLimit == 20
GroundingMinScore == 50
DefaultMaxTokens == 2000
CharsPerToken == 4
\* most matches the index answers with
MaxMatches == 3
\* largest max_tokens tried besides the default
MaxBudget == 44

Scores == {40, 80}

\* the metadata of the units the index holds: complete, with fields missing
\* (and an empty preview)
StoredMetadatas ==
  { [entity_name |-> "e1", source_platform |-> "claude", memory_type |-> "note",
     timestamp |-> "2024-05-01", text_preview |-> "cats purr."],
    [entity_name |-> "e1", memory_type |-> "journal", text_preview |-> ""] }

\* a match, with or without metadata
Units ==
  {[score |-> sc, metadata |-> md] : sc \in Scores, md \in StoredMetadatas}
  \cup {[score |-> sc] : sc \in Scores}

\* the index's answers: up to MaxMatches matches by descending similarity,
\* each with its own id
Answers ==
  UNION {
    {[k \in 1..n |-> [id |-> k] @@ f[k]] :
       f \in {g \in [1..n -> Units] : \A k \in 1..(n - 1) : g[k].score >= g[k + 1].score}}
    : n \in 0..MaxMatches}

\* a match passes the filter when its metadata has every filtered field
passes(m, filter) ==
  \A k \in DOMAIN filter : has(m, "metadata") /\ has(m.metadata, k) /\ m.metadata[k] = filter[k]

\* what VECTORIZE.query may answer to these options
answersTo(opts) ==
  {a \in Answers :
     /\ Len(a) <= opts.topK
     /\ \A k \in 1..Len(a) : passes(a[k], IF has(opts, "filter") THEN opts.filter ELSE <<>>)}

\* a || b on strings: undefined and "" are falsy
orStr(a, k, b) == IF has(a, k) /\ a[k] # "" THEN a[k] ELSE b

Lower == "abcdefghijklmnopqrstuvwxyz"
Upper == "ABCDEFGHIJKLMNOPQRSTUVWXYZ"

upperChar(c) ==
  LET at == {k \in 1..Len(Lower) : SubSeq(Lower, k, k) = c}
  IN IF at = {} THEN c ELSE LET k == CHOOSE k \in at : TRUE IN SubSeq(Upper, k, k)

RECURSIVE toUpperCase(_)
toUpperCase(str) ==
  IF str = "" THEN ""
  ELSE toUpperCase(SubSeq(str, 1, Len(str) - 1)) \o upperChar(SubSeq(str, Len(str), Len(str)))

\* memory.metadata?.x
metadataOf(memory) == IF has(memory, "metadata") THEN memory.metadata ELSE <<>>

\* mutant: the platform is written before the entity
formatAttributionSwapped(memory) ==
  LET md == metadataOf(memory)
      entity == orStr(md, "entity_name", "unknown")
      platform == orStr(md, "source_platform", "unknown")
      ts == orStr(md, "timestamp", "unknown date")
      type == orStr(md, "memory_type", "memory")
  IN "[" \o toUpperCase(type) \o " from " \o platform \o " | Source: " \o entity
     \o " | " \o ts \o "]\n"
     \o orStr(memory, "text", orStr(md, "text_preview", "(content unavailable)"))
     \o "\n---"

formatAttribution(memory) ==
  LET md == metadataOf(memory)
      entity == orStr(md, "entity_name", "unknown")
      platform == orStr(md, "source_platform", "unknown")
      ts == orStr(md, "timestamp", "unknown date")
      type == orStr(md, "memory_type", "memory")
  IN "[" \o toUpperCase(type) \o " from " \o entity \o " | Source: " \o platform
     \o " | " \o ts \o "]\n"
     \o orStr(memory, "text", orStr(md, "text_preview", "(content unavailable)"))
     \o "\n---"

\* Math.ceil(text.length / 4)
estimateTokens(str) == (Len(str) + CharsPerToken - 1) \div CharsPerToken

\* the filter toolSearch builds
searchFilter(a) ==
  (IF has(a, "entity") /\ a.entity # "" /\ a.entity # "all"
   THEN [entity_name |-> a.entity] ELSE <<>>)
  @@ (IF has(a, "memory_type") /\ a.memory_type # ""
      THEN [memory_type |-> a.memory_type] ELSE <<>>)
  @@ (IF has(a, "source_platform") /\ a.source_platform # ""
      THEN [source_platform |-> a.source_platform] ELSE <<>>)

limitOf(a) == IF has(a, "limit") THEN a.limit ELSE DefaultLimit
minScoreOf(a) == IF has(a, "min_score") THEN a.min_score ELSE DefaultMinScore

\* topK: Math.min(limit, 20); the filter only when it has a key
queryOptionsOf(a) ==
  [topK |-> Min(limitOf(a), MaxTopK), returnValues |-> FALSE, returnMetadata |-> "all"]
  @@ (IF DOMAIN searchFilter(a) # {} THEN [filter |-> searchFilter(a)] ELSE <<>>)

\* mutant: a match at the threshold is dropped
keptAbove(m, min) == m.score > min

\* m.score >= min_score
kept(m, min) == m.score >= min

\* Array.prototype.filter, in order
RECURSIVE filterKept(_, _)
filterKept(ms, min) ==
  IF ms = <<>> THEN <<>>
  ELSE (IF kept(Head(ms), min) THEN <<Head(ms)>> ELSE <<>>) \o filterKept(Tail(ms), min)

\* the object toolSearch makes of a match
memoryOf(m) ==
  LET md == metadataOf(m)
      withText == IF has(md, "text_preview") THEN [text |-> md.text_preview] ELSE <<>>
      withMd == IF has(m, "metadata") THEN [metadata |-> m.metadata] ELSE <<>>
  IN [id |-> m.id, score |-> m.score,
      formatted |-> formatAttribution(withMd @@ withText)] @@ withText @@ withMd

memoriesOf(ms, min) ==
  LET keptMs == filterKept(ms, min)
  IN [k \in 1..Len(keptMs) |-> memoryOf(keptMs[k])]

\* the arguments toolGetGroundingContext hands to toolSearch
GroundingQuery == "recent conversation important memory significant moment"
entityOf(a) == IF has(a, "entity") THEN a.entity ELSE "all"
maxTokensOf(a) == IF has(a, "max_tokens") THEN a.max_tokens ELSE DefaultMaxTokens
groundingSearchArgs(a) ==
  [query |-> IF a.topic = "recent" \/ a.topic = "Recent" THEN GroundingQuery ELSE a.topic,
   entity |-> entityOf(a), limit |-> GroundingLimit, min_score |-> GroundingMinScore]

\* the arguments of the toolSearch being run
searchArgs == IF tool = "get_grounding_context" THEN groundingSearchArgs(args) ELSE args

header(a) ==
  "## Grounding Context\n" \o "Query: \"" \o a.topic \o "\" | Entity filter: "
  \o entityOf(a) \o "\n\n"

\* mutant: a block that does not fit is skipped and the loop goes on
RECURSIVE packSkipping(_, _, _, _)
packSkipping(st, mems, k, budget) ==
  IF k > Len(mems) THEN st
  ELSE LET memoryTokens == estimateTokens(mems[k].formatted)
       IN IF st.currentTokens + memoryTokens <= budget
          THEN packSkipping([context |-> (st.context \o mems[k].formatted) \o "\n",
                             currentTokens |-> st.currentTokens + memoryTokens,
                             includedMemories |-> Append(st.includedMemories, mems[k].id)],
                            mems, k + 1, budget)
          ELSE packSkipping(st, mems, k + 1, budget)

\* the packing loop: the context, the tokens and the ids after the memories
\* from position k on
RECURSIVE pack(_, _, _, _)
pack(st, mems, k, budget) ==
  IF k > Len(mems) THEN st
  ELSE LET memoryTokens == estimateTokens(mems[k].formatted)
       IN IF st.currentTokens + memoryTokens <= budget
          THEN pack([context |-> (st.context \o mems[k].formatted) \o "\n",
                     currentTokens |-> st.currentTokens + memoryTokens,
                     includedMemories |-> Append(st.includedMemories, mems[k].id)],
                    mems, k + 1, budget)
          ELSE st

groundingResult(a, mems) ==
  LET st == pack([context |-> header(a), currentTokens |-> estimateTokens(header(a)),
                  includedMemories |-> <<>>], mems, 1, maxTokensOf(a))
  IN [kind |-> "result", context |-> st.context, token_estimate |-> st.currentTokens,
      memories_included |-> Len(st.includedMemories), total_available |-> Len(mems)]

searchResult(a, mems) ==
  [kind |-> "result", query |-> a.query, count |-> Len(mems), memories |-> mems]

\* the tools/call arguments tried
SearchCalls ==
  {[query |-> "cats"] @@ l @@ ms @@ e :
     l \in {<<>>, [limit |-> 1], [limit |-> 2], [limit |-> 25]},
     ms \in {<<>>, [min_score |-> 60], [min_score |-> 80]},
     e \in {<<>>, [entity |-> "all"], [entity |-> "e1"]}}
  \cup {[query |-> "cats", memory_type |-> "note"],
        [query |-> "cats", source_platform |-> "claude"],
        [query |-> "cats", entity |-> "all", memory_type |-> "all"],
        [query |-> "cats", entity |-> "e1", memory_type |-> "note", source_platform |-> "all"]}

GroundingCalls ==
  {[topic |-> t] @@ e @@ b :
     t \in {"cat", "recent"},
     e \in {<<>>, [entity |-> "e1"]},
     b \in {<<>>} \cup {[max_tokens |-> n] : n \in 1..MaxBudget}}

\* tools/call of search or get_grounding_context, up to the embedding request
CallRetriever ==
  /\ pc = "idle"
  /\ response.kind = "none"
  /\ \/ tool' = "search" /\ \E a \in SearchCalls : args' = a
     \/ tool' = "get_grounding_context" /\ \E a \in GroundingCalls : args' = a
  /\ pc' = "search-embed"
  /\ response' = [kind |-> "none"]
  /\ reqs' = <<>>
  /\ queryOptions' = <<>>
  /\ matches' = <<>>
  /\ memories' = <<>>
  /\ UNCHANGED searchRest

\* await generateEmbedding(query, env)
SearchEmbed ==
  /\ pc = "search-embed"
  /\ reqs' = Append(reqs, [op |-> "embed", at |-> 0])
  /\ \/ pc' = "search-query" /\ UNCHANGED response
     \/ Throw
  /\ UNCHANGED <<tool, args, queryOptions, matches, memories>>
  /\ UNCHANGED searchRest

\* await env.VECTORIZE.query(embedding, queryOptions), the filter and map of
\* the matches, the packing of toolGetGroundingContext, and the return
SearchQuery ==
  /\ pc = "search-query"
  /\ reqs' = Append(reqs, [op |-> "query", at |-> 0])
  /\ queryOptions' = queryOptionsOf(searchArgs)
  /\ \/ \E a \in answersTo(queryOptionsOf(searchArgs)) :
          /\ matches' = a
          /\ memories' = memoriesOf(a, minScoreOf(searchArgs))
          /\ response' = IF tool = "search"
                         THEN searchResult(args, memories')
                         ELSE groundingResult(args, memories')
          /\ pc' = "idle"
     \/ Throw /\ UNCHANGED <<matches, memories>>
  /\ UNCHANGED <<tool, args>>
  /\ UNCHANGED searchRest

SearchNext == CallRetriever \/ SearchEmbed \/ SearchQuery \/ Deliver

SearchStart == WorkerInit /\ ChunkerIdle /\ SearchIdle /\ BulkIdle

SpecSearch == SearchStart /\ [][SearchNext]_vars

\* ------------------------------------------------------ retriever: claims
\* C4: the context get_grounding_context returns has an estimated token
\* count, ceil(len(context) / 4), of at most max_tokens.
C4_ContextWithinBudget ==
  (tool = "get_grounding_context" /\ answered /\ response.kind = "result") =>
    estimateTokens(response.context) <= maxTokensOf(args)

FilterKeys ==
  [entity |-> "entity_name", memory_type |-> "memory_type",
   source_platform |-> "source_platform"]

\* C12: the filter search sends holds the entity, memory_type and
\* source_platform constraints exactly for those of the three arguments that
\* are supplied and not "all"; an absent or "all" argument adds none, and
\* with no constraint the query is sent without a filter.
C12_FilterSkipsAll ==
  (tool = "search" /\ queryOptions # <<>>) =>
    LET constrains(k) == has(args, k) /\ args[k] # "all"
        filter == IF has(queryOptions, "filter") THEN queryOptions.filter ELSE <<>>
    IN /\ \A k \in DOMAIN FilterKeys :
            IF constrains(k)
            THEN has(filter, FilterKeys[k]) /\ filter[FilterKeys[k]] = args[k]
            ELSE ~has(filter, FilterKeys[k])
       /\ has(queryOptions, "filter") <=> \E k \in DOMAIN FilterKeys : constrains(k)

\* a field of the metadata of a match, or the fallback when the match has no
\* metadata, the field is absent or it is empty
fieldOr(m, k, fallback) ==
  IF has(m, "metadata") /\ has(m.metadata, k) /\ m.metadata[k] # ""
  THEN m.metadata[k] ELSE fallback

\* the attribution block the claim describes for a match, with the given
\* rendering of a missing timestamp
attributionBlock(m, noTimestamp) ==
  "[" \o toUpperCase(fieldOr(m, "memory_type", "memory"))
  \o " from " \o fieldOr(m, "entity_name", "unknown")
  \o " | Source: " \o fieldOr(m, "source_platform", "unknown")
  \o " | " \o fieldOr(m, "timestamp", noTimestamp) \o "]\n"
  \o fieldOr(m, "text_preview", "(content unavailable)") \o "\n---"

\* the match a returned memory was made of
matchOf(mem) == CHOOSE m \in {matches[k] : k \in 1..Len(matches)} : m.id = mem.id

RECURSIVE cumulativeTokens(_)
cumulativeTokens(k) ==
  IF k = 0 THEN estimateTokens(header(args))
  ELSE cumulativeTokens(k - 1) + estimateTokens(memories[k].formatted)

\* the header followed by the first k blocks, each with its newline
RECURSIVE prefixContext(_)
prefixContext(k) ==
  IF k = 0 THEN header(args)
  ELSE (prefixContext(k - 1) \o memories[k].formatted) \o "\n"

\* C16: get_grounding_context includes exactly the longest prefix of the
\* search results whose cumulative token estimate, starting from the
\* header's, stays within max_tokens: nothing after the first block that does
\* not fit is included, and memories_included <= total_available.
C16_LongestFittingPrefix ==
  (tool = "get_grounding_context" /\ answered /\ response.kind = "result") =>
    LET n == response.memories_included
    IN /\ response.total_available = Len(memories)
       /\ n <= response.total_available
       /\ \A k \in 1..n : cumulativeTokens(k) <= maxTokensOf(args)
       /\ n < Len(memories) => cumulativeTokens(n + 1) > maxTokensOf(args)
       /\ response.context = prefixContext(n)
       /\ response.token_estimate = cumulativeTokens(n)

\* a block was included, the next one did not fit, and a smaller one after
\* it would have fitted
C16_Witness ==
  /\ tool = "get_grounding_context" /\ answered /\ response.kind = "result"
  /\ response.memories_included >= 1
  /\ \E j \in (response.memories_included + 2)..Len(memories) :
       response.token_estimate + estimateTokens(memories[j].formatted) <= maxTokensOf(args)

\* C17: after any sequence of ingest calls, also by different entities or
\* platforms with chunks of identical text, every index unit that carries
\* the r2_key toolIngest gave it (its chunk has more than 500 characters)
\* points to a blob that exists and whose stored metadata has the
\* entity_name and source_platform of the unit.
C17_BlobMatchesUnit ==
  \A k \in 1..Len(index) :
    LET u == index[k]
    IN (u.by.tool = "ingest" /\ Len(u.by.chunk) > 500 /\ has(u.metadata, "r2_key")) =>
         /\ u.metadata.r2_key \in DOMAIN blobs
         /\ LET blob == blobs[u.metadata.r2_key]
            IN /\ opt(blob.metadata, "entity_name") = opt(u.metadata, "entity_name")
               /\ opt(blob.metadata, "source_platform") = opt(u.metadata, "source_platform")

\* ------------------------------------------------------------ the protocol
MethodNotFoundCode == -32601
InternalErrorCode == -32603

\* the tools executeTool knows
KnownTools == {"search", "get_grounding_context", "ingest", "store", "stats"}

\* request bodies: text that is not JSON, the JSON value null, the two
\* methods answered in place, tools/call without params and with the name
\* of no tool, a method the server does not have, and a body without method
Bodies ==
  { [kind |-> "unparsable"],
    [kind |-> "null"],
    [kind |-> "object", method |-> "initialize", id |-> 1],
    [kind |-> "object", method |-> "tools/list", id |-> 2],
    [kind |-> "object", method |-> "tools/call", id |-> 3],
    [kind |-> "object", method |-> "tools/call", id |-> 4, params |-> [name |-> "forget"]],
    [kind |-> "object", method |-> "resources/list", id |-> 5],
    [kind |-> "object", id |-> 6] }

\* the catch of fetch: status 500, id null
internalError == [kind |-> "error", code |-> InternalErrorCode, status |-> 500]

\* what fetch answers to a body that reaches no tool
handleMCPRequest(b) ==
  IF b.kind # "object" THEN internalError
  ELSE IF ~has(b, "method") THEN [kind |-> "error", code |-> MethodNotFoundCode, id |-> b.id]
  ELSE CASE b.method = "initialize" -> [kind |-> "result", id |-> b.id, protocolVersion |-> "2024-11-05"]
         [] b.method = "tools/list" -> [kind |-> "result", id |-> b.id, tools |-> KnownTools]
         [] b.method = "tools/call" ->
              IF ~has(b, "params") THEN internalError
              ELSE IF b.params.name \notin KnownTools THEN toolError @@ [id |-> b.id]
              ELSE [kind |-> "none"]
         [] OTHER -> [kind |-> "error", code |-> MethodNotFoundCode, id |-> b.id]

\* a POST /mcp that is answered without reaching a tool
HandleRequest ==
  /\ pc = "idle"
  /\ response.kind = "none"
  /\ \E b \in Bodies : body' = b /\ response' = handleMCPRequest(b)
  /\ UNCHANGED <<index, blobs, nextId, calls, pc, tool, args, loopI, results, reqs>>
  /\ UNCHANGED <<chunkVars, searchVars, bulkVars>>

\* the requests above and tools/call of store
ProtocolNext ==
  \/ HandleRequest
  \/ CallStore
  \/ StoreEmbed
  \/ StoreUpsert
  \/ Deliver

ProtocolStart == WorkerInit /\ ChunkerIdle /\ SearchIdle /\ BulkIdle

SpecProtocol == ProtocolStart /\ [][ProtocolNext]_vars

\* C14: every answer to POST /mcp is one JSON-RPC response with a result or
\* an error: a failure while executing a tool (an unknown tool name, a failed
\* collaborator, an argument the tool cannot use) gives code -32000, an
\* unknown method -32601, an unparsable body or any other uncaught failure
\* -32603; initialize and tools/list give a result, and after any answer the
\* handler takes the next request.
C14_ErrorCodes ==
  /\ answered =>
       /\ response.kind \in {"result", "error"}
       /\ tool # "none" =>
            /\ response.kind = "error" => response.code = -32000
            /\ ~has(args, "text") => response.kind = "error"
            /\ response.kind = "result" =>
                 /\ index # <<>>
                 /\ index[Len(index)].id = response.memory_id
       /\ tool = "none" =>
            IF body.kind # "object" THEN response.kind = "error" /\ response.code = -32603
            ELSE IF ~has(body, "method") THEN response.kind = "error" /\ response.code = -32601
            ELSE IF body.method \in {"initialize", "tools/list"} THEN response.kind = "result"
            ELSE IF body.method # "tools/call" THEN response.kind = "error" /\ response.code = -32601
            ELSE IF has(body, "params") THEN response.kind = "error" /\ response.code = -32000
            ELSE response.kind = "error" /\ response.code = -32603
  /\ (pc = "idle" /\ response.kind = "none") => ENABLED HandleRequest

\* a store call is answered with a result after an earlier store call was
\* answered with an error
C14_Witness ==
  /\ answered
  /\ tool = "store"
  /\ response.kind = "result"
  /\ calls = 2
  /\ Len(index) = 1

\* ------------------------------------------------------ the ingest CLI
CHUNK_SIZE == 1500
CHUNK_OVERLAP == 200
\* most entries readdir lists
MaxFiles == 2

\* a document of one chunk and one of 1600 characters, which chunkText cuts
\* into two
ShortDoc == "hello."
LongDoc == Rep("a", 1600)

\* [role || author || 'unknown']: content || text || ''
messageLine(m) ==
  "[" \o orStr(m, "role", orStr(m, "author", "unknown")) \o "]: "
  \o orStr(m, "content", orStr(m, "text", ""))

RECURSIVE joinLines(_)
joinLines(ms) ==
  IF ms = <<>> THEN ""
  ELSE IF Len(ms) = 1 THEN messageLine(ms[1])
  ELSE messageLine(ms[1]) \o "\n\n" \o joinLines(Tail(ms))

TwoMessages == <<[role |-> "user", content |-> ShortDoc], [author |-> "bot", text |-> LongDoc]>>

\* the entries of the directory: what parseMarkdown or parseJSON makes of
\* each, or that it throws (an unreadable file, a JSON syntax error)
DirEntries ==
  { [name |-> "a.md", parsed |-> [type |-> "markdown", content |-> ShortDoc]],
    [name |-> "b.txt", parsed |-> [type |-> "markdown", content |-> LongDoc]],
    [name |-> "gone.md", parsed |-> [type |-> "throws"]],
    [name |-> "chat.json", parsed |-> [type |-> "chat-export", messages |-> TwoMessages]],
    [name |-> "convs.json",
     parsed |-> [type |-> "conversations", conversations |-> <<[messages |-> TwoMessages]>>]],
    [name |-> "other.json", parsed |-> [type |-> "json-unknown", content |-> ShortDoc]],
    [name |-> "bad.json", parsed |-> [type |-> "throws"]],
    [name |-> "notes.log", parsed |-> [type |-> "throws"]] }

endsWith(str, suffix) ==
  Len(str) >= Len(suffix) /\ SubSeq(str, Len(str) - Len(suffix) + 1, Len(str)) = suffix

Extensions == {".md", ".json", ".txt"}

\* files.filter(f => f.isFile() && extensions.some(ext => f.name.endsWith(ext)))
RECURSIVE matchingOf(_)
matchingOf(fs) ==
  IF fs = <<>> THEN <<>>
  ELSE (IF \E ext \in Extensions : endsWith(Head(fs).name, ext) THEN <<Head(fs)>> ELSE <<>>)
       \o matchingOf(Tail(fs))

matchingFiles == matchingOf(dirFiles)

bulkChunks(t) == chunkText(t, "bulk", CHUNK_SIZE, CHUNK_OVERLAP)

RECURSIVE flatten(_)
flatten(ss) == IF ss = <<>> THEN <<>> ELSE Head(ss) \o flatten(Tail(ss))

\* the chunks processMarkdownFile or processJSONFile sends for a parsed file,
\* in order
chunksOfParsed(p) ==
  CASE p.type = "markdown" -> bulkChunks(p.content)
    [] p.type = "chat-export" ->
         flatten([k \in 1..Len(p.messages) |-> bulkChunks(messageLine(p.messages[k]))])
    [] p.type = "conversations" ->
         flatten([k \in 1..Len(p.conversations) |->
                    bulkChunks(joinLines(p.conversations[k].messages))])
    [] OTHER -> bulkChunks(p.content)

\* once per entry
chunksOfEntry == [e \in DirEntries |-> IF e.parsed.type = "throws" THEN <<>> ELSE chunksOfParsed(e.parsed)]

Directories == UNION {[1..n -> DirEntries] : n \in 0..MaxFiles}

BulkInit ==
  /\ dirFiles \in Directories
  /\ fileI = 0
  /\ chunkI = 0
  /\ successCount = 0
  /\ totalChunks = 0
  /\ bpc = "start"
  /\ ingested = {}
  /\ WorkerInit
  /\ ChunkerIdle
  /\ SearchIdle

\* parseMarkdown / parseJSON reject: readFile or JSON.parse throws
parseThrows(e) == e.parsed.type = "throws"

\* await fs.readdir and the filter
BulkStart ==
  /\ bpc = "start"
  /\ bpc' = "file"
  /\ UNCHANGED <<dirFiles, fileI, chunkI, successCount, totalChunks, ingested>>
  /\ UNCHANGED bulkRest

\* the next filePath: await parseMarkdown / parseJSON and chunkText; nothing
\* in processDirectory catches what the parser throws
BulkOpenFile ==
  /\ bpc = "file"
  /\ fileI < Len(matchingFiles)
  /\ LET e == matchingFiles[fileI + 1]
     IN IF parseThrows(e)
        THEN bpc' = "threw" /\ UNCHANGED fileI
        ELSE IF chunksOfEntry[e] = <<>>
        THEN bpc' = "file" /\ fileI' = fileI + 1
        ELSE bpc' = "chunk" /\ UNCHANGED fileI
  /\ chunkI' = 0
  /\ successCount' = 0
  /\ UNCHANGED <<dirFiles, totalChunks, ingested>>
  /\ UNCHANGED bulkRest

\* try { await ingestChunk(...); successCount++ } catch (e) { console.error }
\* and, after the last chunk, totalChunks += successCount
BulkIngestChunk ==
  /\ bpc = "chunk"
  /\ \E ok \in BOOLEAN :
       LET n == IF ok THEN successCount + 1 ELSE successCount
           last == chunkI + 1 = Len(chunksOfEntry[matchingFiles[fileI + 1]])
       IN /\ ingested' = IF ok THEN ingested \cup {<<fileI, chunkI>>} ELSE ingested
          /\ IF last
             THEN /\ totalChunks' = totalChunks + n
                  /\ fileI' = fileI + 1
                  /\ bpc' = "file"
                  /\ UNCHANGED <<successCount, chunkI>>
             ELSE /\ successCount' = n
                  /\ chunkI' = chunkI + 1
                  /\ UNCHANGED <<totalChunks, fileI, bpc>>
  /\ UNCHANGED dirFiles
  /\ UNCHANGED bulkRest

\* return totalChunks
BulkReturn ==
  /\ bpc = "file"
  /\ fileI >= Len(matchingFiles)
  /\ bpc' = "returned"
  /\ UNCHANGED <<dirFiles, fileI, chunkI, successCount, totalChunks, ingested>>
  /\ UNCHANGED bulkRest

BulkNext == BulkStart \/ BulkOpenFile \/ BulkIngestChunk \/ BulkReturn

SpecBulk == BulkInit /\ [][BulkNext]_vars

\* --------------------------------------------------------- the CLI: claims
\* C8: a failure on one item does not abort the batch: when processDirectory
\* ends, every matching file that can be parsed has been processed, also the
\* ones listed after a file that failed to parse, and the total counts exactly
\* the ingest calls that succeeded.
C8_BulkContinuesAfterFailure ==
  (bpc \in {"returned", "threw"}) =>
    /\ \A k \in 1..Len(matchingFiles) : ~parseThrows(matchingFiles[k]) => k <= fileI
    /\ totalChunks = Cardinality(ingested)

====
